---- MODULE Spec2Model ----
(***************************************************************************)
(* Uninformed graph searches of usm_implementation/methods: DFS, BFS, DLS, *)
(* IDS, UCS and BIDI over an adjacency-set graph, with parent-pointer path *)
(* reconstruction.  One action is one iteration of a search loop.          *)
(***************************************************************************)
EXTENDS Integers, Sequences, FiniteSets, TLC

\* ------------------------------------------------------------------ bounds
MaxVertex == 2
MaxEdges == 3
MaxUcsEdges == 2
MaxCost == 2
MaxDepth == 2

\* --------------------------------------------------------------- data model
\* Vertex identifiers are the integers 0..MaxVertex.  Vertex 0 is the one
\* identifier of the Vertex type (int or str) that Python treats as false.
Vertices == 0..MaxVertex

\* Python's None, used as "no predecessor" in a PathMap.
None == -1

\* float('inf'), the initial entry of the UCS cost map.
inf == -1

\* The truth value Python gives an object in `while paths[v]` / `if paths[v]`:
\* None and the integer 0 are false, every other identifier is true.
Truthy(x) == x /= None /\ x /= 0

Range(s) == {s[i] : i \in 1..Len(s)}

\* The edges of g: its keys paired with the members of their neighbour sets.
Edges(g) == {e \in (DOMAIN g) \X (UNION {g[k] : k \in DOMAIN g}) : e[2] \in g[e[1]]}

EdgeCount(g) == Cardinality(Edges(g))

GraphsUpTo(n) == {g \in [Vertices -> SUBSET Vertices] : EdgeCount(g) <= n}

\* Graphs in which a vertex named in a neighbour set need not be a key.
PartialGraphsUpTo(n) ==
    {g \in UNION {[K -> SUBSET Vertices] : K \in SUBSET Vertices} : EdgeCount(g) <= n}

\* str(n) for a non-negative integer, as the sequence of its character codes.
RECURSIVE Str(_)
Str(n) == IF n < 10 THEN <<48 + n>> ELSE Str(n \div 10) \o <<48 + (n % 10)>>

\* The key f"{current_vertex}-{neighbor}" of an edge in the cost table.
EdgeKey(u, v) == Str(u) \o <<45>> \o Str(v)

EdgeKeys(g) == {EdgeKey(e[1], e[2]) : e \in Edges(g)}

\* Arithmetic and comparison of costs, where a cost may be float('inf').
CostAdd(a, w) == IF a = inf THEN inf ELSE a + w
\* The comparison if a cost equal to the recorded one also counted as lower.
CostLessOrEqual(a, b) == IF a = inf THEN b = inf ELSE IF b = inf THEN TRUE ELSE a <= b

CostLess(a, b) == IF a = inf THEN FALSE ELSE IF b = inf THEN TRUE ELSE a < b

\* Python's order on the (cost, vertex) tuples kept in the heap.
TupleLess(a, b) == CostLess(a[1], b[1]) \/ (a[1] = b[1] /\ a[2] < b[2])

\* heapq.heappush on a heap held as the sorted sequence of its entries:
\* heappop always removes the least tuple, and equal tuples are alike.
RECURSIVE heappush(_, _)
heappush(h, item) ==
    IF h = <<>> THEN <<item>>
    ELSE IF TupleLess(item, Head(h)) THEN <<item>> \o h
    ELSE <<Head(h)>> \o heappush(Tail(h), item)

Reverse(s) == [k \in 1..Len(s) |-> s[Len(s) + 1 - k]]

\* d[k] = x on a dict: the key k is added when d does not have it.
SetItem(d, k, x) == [y \in (DOMAIN d) \cup {k} |-> IF y = k THEN x ELSE d[y]]

\* `for v in S: d[v] = x`
SetItems(d, S, x) == [y \in (DOMAIN d) \cup S |-> IF y \in S THEN x ELSE d[y]]

VARIABLES
    algo,          \* which search operation is running
    graph,         \* Graph: vertex -> set of neighbours
    root,
    goal,
    depth_limit,   \* DLS argument; the limit of the current inner run in IDS
    max_depth,     \* IDS argument
    edge_costs,    \* UCS argument: edge key -> cost
    draw_path,     \* the visitor callback handed to DFS, BFS, DLS and UCS
    ui_elements,   \* the collection handed along with it
    drawn,         \* history: the calls of the visitor made so far
    stack,         \* DFS / DLS / IDS frontier
    queue,         \* BFS frontier
    frontier,      \* UCS heap of <<cost, vertex>>
    root_queue,    \* BIDI
    goal_queue,    \* BIDI
    visited,
    root_visited,
    goal_visited,
    assigner,      \* history: the half of perform_bidi that last wrote paths[v]
    paths,         \* PathMap
    depths,        \* DepthMap
    costs,         \* CostMap of UCS
    turn,          \* BIDI: which half of the loop body runs next
    i,             \* loop index of perform_ids
    path,          \* local `path` of perform_ids
    pc,            \* position of the running call
    result,        \* what the call returned
    popped,        \* history: vertices popped from the frontier, in order
    expanded,      \* history: vertices whose neighbours were examined, in order
    meeting,       \* history: <<vertex, v>> of the BIDI expansion that returned
    iteration,     \* the order in which each set met so far was iterated
    plan,          \* the calls the process makes after the running one
    returned       \* history: the calls that ended, each with what it returned

\* Iterating a Python set yields its elements once each, in an order the
\* language does not fix.
OrdersUnfixed(S) ==
    {s \in [1..Cardinality(S) -> S] : \A j, k \in 1..Cardinality(S) : s[j] = s[k] => j = k}

\* The orders in which S may be iterated now: any order of its elements,
\* unless the process is one whose iteration order is fixed and has
\* iterated S before.
Orders(S) ==
    IF iteration.fixed /\ S \in DOMAIN iteration.order
    THEN {iteration.order[S]}
    ELSE {s \in [1..Cardinality(S) -> S] : \A j, k \in 1..Cardinality(S) : s[j] = s[k] => j = k}

\* The iteration orders known after S was iterated as s.
Iterated(S, s) ==
    IF iteration.fixed
    THEN [iteration EXCEPT !.order = [T \in (DOMAIN @) \cup {S} |-> IF T = S THEN s ELSE @[T]]]
    ELSE iteration

\* A process in which nothing is assumed about iteration orders.
AnyOrder == [fixed |-> FALSE, order |-> <<>>]

\* A process whose set iteration order is a function of the set.
FixedOrder == [fixed |-> TRUE, order |-> <<>>]

\* graph[vertex]: the neighbour set the searches read for a vertex.
Neighbors(vertex) == graph[vertex]

\* The candidates of an expansion if the frontier were not subtracted.
AdjacentVerticesRequeued(vertex, seen, rest) == Neighbors(vertex) \ seen

\* The candidates of an expansion if the visited set were not subtracted.
AdjacentVerticesRevisited(vertex, seen, rest) == Neighbors(vertex) \ Range(rest)

\* The candidates of an expansion if every edge also ran backwards.
AdjacentVerticesUndirected(vertex, seen, rest) ==
    ((Neighbors(vertex) \cup {u \in DOMAIN graph : vertex \in graph[u]}) \ seen) \ Range(rest)

\* adjacent_vertices = graph[vertex] - visited - set(stack)
AdjacentVertices(vertex, seen, rest) == (Neighbors(vertex) \ seen) \ Range(rest)

vars == <<algo, graph, root, goal, depth_limit, max_depth, edge_costs, draw_path, ui_elements,
          drawn, stack,
          queue, frontier, root_queue, goal_queue, visited, root_visited,
          goal_visited, turn, assigner, paths, depths, costs, i, path, pc, result,
          popped, expanded, meeting, iteration, plan, returned>>

inputs == <<algo, graph, root, goal, max_depth, edge_costs, draw_path>>
notified == <<ui_elements, drawn>>

bidi_state == <<root_queue, goal_queue, root_visited, goal_visited, turn, assigner>>

process == <<plan, returned>>

\* -------------------------------------------------------------- return values
Pending == [kind |-> "pending", path |-> <<>>]
ReturnPath(p) == [kind |-> "path", path |-> p]
ReturnEmptySet == [kind |-> "set()", path |-> <<>>]
ReturnNone == [kind |-> "None", path |-> <<>>]

\* The call ended by a dict lookup with a key the dict does not have.
RaiseKeyError == [kind |-> "KeyError", path |-> <<>>]

\* The call ended by the exception the visitor raised.
RaiseVisitorError == [kind |-> "VisitorError", path |-> <<>>]

\* The call ended by a TypeError.
RaiseTypeError == [kind |-> "TypeError", path |-> <<>>]

\* --------------------------------------------------------------- the visitor
\* draw_path=None, the default: _draw_path notifies nobody.
NoVisitor == [given |-> FALSE, fails |-> {}, returns_list |-> FALSE]

\* The colours of the notifications: a vertex reached, the goal found, an
\* edge examined by perform_ucs.
Colors == {"orange", "green", "yellow"}

\* A visitor is known by the notifications it fails on and by what it
\* returns: this one raises when called with a colour in F and otherwise
\* returns a list of what it drew (returns_list) or None.
Visitor(F, returns_list) == [given |-> TRUE, fails |-> F, returns_list |-> returns_list]

Visitors == {NoVisitor} \cup {Visitor(F, r) : F \in SUBSET Colors, r \in BOOLEAN}

\* draw_path of main.py: draws the path and returns the list of the
\* elements it drew.
MainVisitor == Visitor({}, TRUE)

\* ui_elements=None, the default.
NoCollection == [given |-> FALSE, items |-> <<>>]

\* A list handed as ui_elements.
Collection(items) == [given |-> TRUE, items |-> items]

\* The collections tried: none, an empty list, and the list [-1] that
\* main.py starts with.
Collections == {NoCollection, Collection(<<>>), Collection(<<-1>>)}

\* `if ui_elements:` is true of a list that is not empty.
Filled(collection) == collection.given /\ collection.items /= <<>>

\* One call of the visitor.
Notification(p, color) == [path |-> p, color |-> color]

\* _draw_path(path, color, width, draw_path, ui_elements) raises what the
\* visitor raises, and raises a TypeError at ui_elements.extend(None) when
\* the visitor returned None and the collection is not empty.  Neither is
\* handled anywhere.  A collection stays empty or filled during a call.
_draw_path_raises(color) ==
    /\ draw_path.given
    /\ \/ color \in draw_path.fails
       \/ Filled(ui_elements) /\ ~draw_path.returns_list

\* What a raising _draw_path(path, color, ...) raises.
_draw_path_error(color) ==
    IF color \in draw_path.fails THEN RaiseVisitorError ELSE RaiseTypeError

\* _draw_path on st = [drawn, ui_elements]: the visitor is called if there
\* is one, and the list it returns (modelled as one handle, the number of
\* the call) is appended to a collection that is not empty.
_draw_path(st, p, color) ==
    IF ~draw_path.given THEN st
    ELSE IF _draw_path_raises(color) \/ ~Filled(st.ui_elements)
    THEN [st EXCEPT !.drawn = Append(@, Notification(p, color))]
    ELSE [st EXCEPT !.drawn = Append(@, Notification(p, color)),
                    !.ui_elements.items = Append(@, Len(st.drawn) + 1)]

\* ------------------------------------------------------- path reconstruction
\* The while loop of _compose_path never ends exactly when the parent chain
\* of v runs into a cycle of true-valued parents: after more steps than
\* there are vertices some vertex has been seen twice.
RECURSIVE ChainLoops(_, _, _)
ChainLoops(v, ps, fuel) ==
    IF v \notin DOMAIN ps THEN FALSE
    ELSE IF ~Truthy(ps[v]) THEN FALSE
    ELSE IF fuel = 0 THEN TRUE
    ELSE ChainLoops(ps[v], ps, fuel - 1)

_compose_path_diverges(v, ps) == ChainLoops(v, ps, Cardinality(DOMAIN ps))

\* The lookup paths[v] of the while test fails when the chain reaches a
\* vertex that is not a key of the PathMap.
RECURSIVE ChainRaises(_, _, _)
ChainRaises(v, ps, fuel) ==
    IF v \notin DOMAIN ps THEN TRUE
    ELSE IF ~Truthy(ps[v]) THEN FALSE
    ELSE IF fuel = 0 THEN FALSE
    ELSE ChainRaises(ps[v], ps, fuel - 1)

_compose_path_raises(v, ps) == ChainRaises(v, ps, Cardinality(DOMAIN ps))

RECURSIVE ComposeLoop(_, _, _)
ComposeLoop(v, p, ps) ==
    IF Truthy(ps[v]) THEN ComposeLoop(ps[v], <<ps[v]>> \o p, ps) ELSE p

\* Path reconstruction that starts from the empty list instead of [v].
_compose_path_unseeded(v, ps) == ComposeLoop(v, <<>>, ps)
\* path = [v]; while paths[v]: path.insert(0, paths[v]); v = paths[v]
_compose_path(v, ps) == ComposeLoop(v, <<v>>, ps)

\* ------------------------------------------------------------------ Init
NoPaths == [v \in DOMAIN graph |-> None]

\* No entry of the PathMap has been written.
NoAssigner == [v \in DOMAIN graph |-> "none"]
NoDepths == [v \in DOMAIN graph |-> -1]
NoCosts == [v \in DOMAIN graph |-> inf]

\* Arguments tried for depth_limit and max_depth.
DepthArgs == -1..MaxDepth

\* One call in a process that makes no other, with no assumption on
\* iteration orders, handed one of the given visitors.
SingleCallWith(visitors) ==
    /\ draw_path \in visitors
    /\ ui_elements \in (IF draw_path.given THEN Collections ELSE {NoCollection})
    /\ drawn = <<>>
    /\ result = Pending
    /\ popped = <<>>
    /\ expanded = <<>>
    /\ meeting = <<>>
    /\ iteration = AnyOrder
    /\ plan = <<>>
    /\ returned = <<>>

\* The same without a visitor.
SingleCall == SingleCallWith({NoVisitor})

\* perform_dfs: stack = [root]; visited = set(); paths = {v: None for v in graph}
InitDfs ==
    /\ algo = "dfs"
    /\ stack = <<root>> /\ visited = {} /\ paths = NoPaths
    /\ pc = "run"
    /\ queue = <<>> /\ frontier = <<>> /\ root_queue = <<>> /\ goal_queue = <<>>
    /\ root_visited = {} /\ goal_visited = {} /\ turn = "root" /\ assigner = NoAssigner
    /\ depths = NoDepths /\ costs = NoCosts /\ edge_costs = <<>>
    /\ depth_limit = 0 /\ max_depth = 0 /\ i = 0 /\ path = Pending

\* perform_bfs: queue = [root]; visited = set(); paths = {v: None for v in graph}
InitBfs ==
    /\ algo = "bfs"
    /\ queue = <<root>> /\ visited = {} /\ paths = NoPaths
    /\ pc = "run"
    /\ stack = <<>> /\ frontier = <<>> /\ root_queue = <<>> /\ goal_queue = <<>>
    /\ root_visited = {} /\ goal_visited = {} /\ turn = "root" /\ assigner = NoAssigner
    /\ depths = NoDepths /\ costs = NoCosts /\ edge_costs = <<>>
    /\ depth_limit = 0 /\ max_depth = 0 /\ i = 0 /\ path = Pending

\* perform_dls: as perform_dfs, plus depths = {v: -1 ...}; depths[root] = 0
InitDlsIn(limits) ==
    /\ algo = "dls"
    /\ depth_limit \in limits
    /\ stack = <<root>> /\ visited = {} /\ paths = NoPaths
    /\ depths = SetItem(NoDepths, root, 0)
    /\ pc = "run"
    /\ queue = <<>> /\ frontier = <<>> /\ root_queue = <<>> /\ goal_queue = <<>>
    /\ root_visited = {} /\ goal_visited = {} /\ turn = "root" /\ assigner = NoAssigner
    /\ costs = NoCosts /\ edge_costs = <<>>
    /\ max_depth = 0 /\ i = 0 /\ path = Pending

InitDls == InitDlsIn(DepthArgs)

\* perform_ids is entered at the head of `for i in range(max_depth)`; the
\* inner search state does not exist yet.
InitIdsIn(limits) ==
    /\ algo = "ids"
    /\ max_depth \in limits
    /\ i = 0 /\ path = Pending
    /\ pc = "ids_loop"
    /\ stack = <<>> /\ visited = {} /\ paths = NoPaths /\ depths = NoDepths
    /\ depth_limit = 0
    /\ queue = <<>> /\ frontier = <<>> /\ root_queue = <<>> /\ goal_queue = <<>>
    /\ root_visited = {} /\ goal_visited = {} /\ turn = "root" /\ assigner = NoAssigner
    /\ costs = NoCosts /\ edge_costs = <<>>

InitIds == InitIdsIn(DepthArgs)

\* perform_ucs: frontier = [(0, root)]; costs[root] = 0
InitUcsLocals ==
    /\ algo = "ucs"
    /\ frontier = <<<<0, root>>>> /\ visited = {} /\ paths = NoPaths
    /\ costs = SetItem(NoCosts, root, 0)
    /\ pc = "run"
    /\ stack = <<>> /\ queue = <<>> /\ root_queue = <<>> /\ goal_queue = <<>>
    /\ root_visited = {} /\ goal_visited = {} /\ turn = "root" /\ assigner = NoAssigner
    /\ depths = NoDepths
    /\ depth_limit = 0 /\ max_depth = 0 /\ i = 0 /\ path = Pending

\* perform_ucs on a graph of at most n edges with a cost for every edge.
InitUcsUpTo(n) ==
    /\ graph \in GraphsUpTo(n)
    /\ edge_costs \in [EdgeKeys(graph) -> 0..MaxCost]
    /\ InitUcsLocals

InitUcs == InitUcsUpTo(MaxUcsEdges)

\* perform_bidi: root_queue = [root]; goal_queue = [goal]; one shared PathMap
InitBidi ==
    /\ algo = "bidi"
    /\ root_queue = <<root>> /\ goal_queue = <<goal>>
    /\ root_visited = {} /\ goal_visited = {}
    /\ paths = NoPaths
    /\ turn = "root" /\ assigner = NoAssigner
    /\ pc = "run"
    /\ stack = <<>> /\ queue = <<>> /\ frontier = <<>> /\ visited = {}
    /\ depths = NoDepths /\ costs = NoCosts /\ edge_costs = <<>>
    /\ depth_limit = 0 /\ max_depth = 0 /\ i = 0 /\ path = Pending

\* A search that takes no cost table, on the graph already chosen.
InitUnweighted ==
    \/ InitDfs
    \/ InitBfs
    \/ InitDls
    \/ InitIds
    \/ InitBidi

Init ==
    /\ root \in Vertices
    /\ goal \in Vertices
    /\ SingleCall
    /\ \/ graph \in GraphsUpTo(MaxEdges) /\ InitUnweighted
       \/ InitUcs

\* ------------------------------------------------------- the notifications
\* The calls at the visit of vertex: _draw_path(node_path, "orange", 4, ...)
\* and, if vertex is the goal, _draw_path(node_path, "green", 8, ...), the
\* second only if the first returned.
Visit(vertex) ==
    LET node_path == _compose_path(vertex, paths)
        visited_st == _draw_path([drawn |-> drawn, ui_elements |-> ui_elements],
                                 node_path, "orange")
    IN  IF vertex = goal /\ ~_draw_path_raises("orange")
        THEN _draw_path(visited_st, node_path, "green")
        ELSE visited_st

\* What the visit of a vertex raises when one of its calls raises.
VisitError ==
    IF _draw_path_raises("orange")
    THEN _draw_path_error("orange")
    ELSE _draw_path_error("green")

VisitNotified(vertex) ==
    /\ drawn' = Visit(vertex).drawn
    /\ ui_elements' = Visit(vertex).ui_elements

\* ------------------------------------------------------------------ DFS
\* One iteration of `while stack` in perform_dfs, or its exit.
PerformDfsStep ==
    /\ algo = "dfs"
    /\ pc = "run"
    /\ UNCHANGED <<inputs, process, depth_limit, queue, frontier, bidi_state, depths,
                   costs, i, path, meeting>>
    /\ IF stack = <<>>
       THEN /\ result' = ReturnEmptySet
            /\ pc' = "done"
            /\ UNCHANGED <<notified, stack, visited, paths, popped, expanded, iteration>>
       ELSE LET vertex == stack[Len(stack)]
                rest == SubSeq(stack, 1, Len(stack) - 1)
            IN  /\ popped' = Append(popped, vertex)
                /\ IF vertex \in visited
                   THEN /\ stack' = rest
                        /\ UNCHANGED <<notified, visited, paths, pc, result, expanded, iteration>>
                   ELSE /\ visited' = visited \cup {vertex}
                        /\ IF _compose_path_raises(vertex, paths)
                           THEN /\ result' = RaiseKeyError
                                /\ pc' = "error"
                                /\ stack' = rest
                                /\ UNCHANGED <<notified, paths, expanded, iteration>>
                           ELSE IF _compose_path_diverges(vertex, paths)
                           THEN /\ pc' = "hang"
                                /\ stack' = rest
                                /\ UNCHANGED <<notified, paths, result, expanded, iteration>>
                           ELSE IF _draw_path_raises("orange")
                                   \/ (vertex = goal /\ _draw_path_raises("green"))
                           THEN /\ result' = VisitError
                                /\ pc' = "error"
                                /\ stack' = rest
                                /\ UNCHANGED <<paths, expanded, iteration>>
                                /\ VisitNotified(vertex)
                           ELSE IF vertex = goal
                           THEN /\ result' = ReturnPath(_compose_path(vertex, paths))
                                /\ pc' = "done"
                                /\ stack' = rest
                                /\ UNCHANGED <<paths, expanded, iteration>>
                                /\ VisitNotified(vertex)
                           ELSE IF vertex \notin DOMAIN graph
                           THEN /\ result' = RaiseKeyError
                                /\ pc' = "error"
                                /\ stack' = rest
                                /\ UNCHANGED <<paths, expanded, iteration>>
                                /\ VisitNotified(vertex)
                           ELSE \E adjacent_vertices \in
                                    Orders(AdjacentVertices(vertex, visited', rest)) :
                                /\ stack' = rest \o adjacent_vertices
                                /\ paths' = SetItems(paths, Range(adjacent_vertices), vertex)
                                /\ expanded' = Append(expanded, vertex)
                                /\ iteration' = Iterated(Range(adjacent_vertices),
                                                         adjacent_vertices)
                                /\ UNCHANGED <<pc, result>>
                                /\ VisitNotified(vertex)

\* ------------------------------------------------------------------ BFS
\* The step of perform_bfs if the subtraction of the visited set were done
\* in place on the neighbour set.
PerformBfsStepInPlace ==
    /\ algo = "bfs"
    /\ pc = "run"
    /\ queue /= <<>>
    /\ Head(queue) \in DOMAIN graph
    /\ graph' = [graph EXCEPT ![Head(queue)] = (@ \ visited) \ {Head(queue)}]
    /\ visited' = visited \cup {Head(queue)}
    /\ queue' = Tail(queue) \o CHOOSE s \in Orders(graph'[Head(queue)] \ Range(queue)) : TRUE
    /\ UNCHANGED <<algo, root, goal, max_depth, edge_costs, draw_path, notified, process,
                   depth_limit, stack,
                   frontier, bidi_state, depths, costs, i, path, meeting, paths, pc,
                   result, popped, expanded, iteration>>

\* The step of perform_bfs if the vertex were taken from the end of the
\* queue, on a graph that has every vertex as a key and without a visitor.
PerformBfsStepLifo ==
    /\ algo = "bfs"
    /\ pc = "run"
    /\ UNCHANGED <<inputs, process, notified, depth_limit, stack, frontier, bidi_state, depths,
                   costs, i, path, meeting>>
    /\ IF queue = <<>>
       THEN /\ result' = ReturnEmptySet
            /\ pc' = "done"
            /\ UNCHANGED <<queue, visited, paths, popped, expanded, iteration>>
       ELSE LET vertex == queue[Len(queue)]
                rest == SubSeq(queue, 1, Len(queue) - 1)
            IN  /\ popped' = Append(popped, vertex)
                /\ visited' = visited \cup {vertex}
                /\ IF vertex = goal
                   THEN /\ result' = ReturnPath(_compose_path(vertex, paths))
                        /\ pc' = "done"
                        /\ queue' = rest
                        /\ UNCHANGED <<paths, expanded, iteration>>
                   ELSE \E adjacent_vertices \in
                            Orders(AdjacentVertices(vertex, visited', rest)) :
                        /\ queue' = rest \o adjacent_vertices
                        /\ paths' = SetItems(paths, Range(adjacent_vertices), vertex)
                        /\ expanded' = Append(expanded, vertex)
                        /\ iteration' = Iterated(Range(adjacent_vertices),
                                                 adjacent_vertices)
                        /\ UNCHANGED <<pc, result>>

\* One iteration of `while queue` in perform_bfs, or its exit.
PerformBfsStep ==
    /\ algo = "bfs"
    /\ pc = "run"
    /\ UNCHANGED <<inputs, process, depth_limit, stack, frontier, bidi_state, depths,
                   costs, i, path, meeting>>
    /\ IF queue = <<>>
       THEN /\ result' = ReturnEmptySet
            /\ pc' = "done"
            /\ UNCHANGED <<notified, queue, visited, paths, popped, expanded, iteration>>
       ELSE LET vertex == Head(queue)
                rest == Tail(queue)
            IN  /\ popped' = Append(popped, vertex)
                /\ IF vertex \in visited
                   THEN /\ queue' = rest
                        /\ UNCHANGED <<notified, visited, paths, pc, result, expanded, iteration>>
                   ELSE /\ visited' = visited \cup {vertex}
                        /\ IF _compose_path_raises(vertex, paths)
                           THEN /\ result' = RaiseKeyError
                                /\ pc' = "error"
                                /\ queue' = rest
                                /\ UNCHANGED <<notified, paths, expanded, iteration>>
                           ELSE IF _compose_path_diverges(vertex, paths)
                           THEN /\ pc' = "hang"
                                /\ queue' = rest
                                /\ UNCHANGED <<notified, paths, result, expanded, iteration>>
                           ELSE IF _draw_path_raises("orange")
                                   \/ (vertex = goal /\ _draw_path_raises("green"))
                           THEN /\ result' = VisitError
                                /\ pc' = "error"
                                /\ queue' = rest
                                /\ UNCHANGED <<paths, expanded, iteration>>
                                /\ VisitNotified(vertex)
                           ELSE IF vertex = goal
                           THEN /\ result' = ReturnPath(_compose_path(vertex, paths))
                                /\ pc' = "done"
                                /\ queue' = rest
                                /\ UNCHANGED <<paths, expanded, iteration>>
                                /\ VisitNotified(vertex)
                           ELSE IF vertex \notin DOMAIN graph
                           THEN /\ result' = RaiseKeyError
                                /\ pc' = "error"
                                /\ queue' = rest
                                /\ UNCHANGED <<paths, expanded, iteration>>
                                /\ VisitNotified(vertex)
                           ELSE \E adjacent_vertices \in
                                    Orders(AdjacentVertices(vertex, visited', rest)) :
                                /\ queue' = rest \o adjacent_vertices
                                /\ paths' = SetItems(paths, Range(adjacent_vertices), vertex)
                                /\ expanded' = Append(expanded, vertex)
                                /\ iteration' = Iterated(Range(adjacent_vertices),
                                                         adjacent_vertices)
                                /\ UNCHANGED <<pc, result>>
                                /\ VisitNotified(vertex)

\* ------------------------------------------------------------------ DLS
\* The depth test if a vertex at depth_limit were still expanded.
AtDepthLimitStrict(vertex) == depths[vertex] > depth_limit

\* `if depths[vertex] >= depth_limit: continue`
AtDepthLimit(vertex) == depths[vertex] >= depth_limit

\* One iteration of `while stack` in perform_dls, or its exit.
PerformDlsStep ==
    /\ algo = "dls"
    /\ pc = "run"
    /\ UNCHANGED <<inputs, process, depth_limit, queue, frontier, bidi_state, costs, i,
                   path, meeting>>
    /\ IF stack = <<>>
       THEN /\ result' = ReturnEmptySet
            /\ pc' = "done"
            /\ UNCHANGED <<notified, stack, visited, paths, depths, popped, expanded, iteration>>
       ELSE LET vertex == stack[Len(stack)]
                rest == SubSeq(stack, 1, Len(stack) - 1)
            IN  /\ popped' = Append(popped, vertex)
                /\ IF vertex \in visited
                   THEN /\ stack' = rest
                        /\ UNCHANGED <<notified, visited, paths, depths, pc, result, expanded,
                                       iteration>>
                   ELSE /\ visited' = visited \cup {vertex}
                        /\ IF _compose_path_raises(vertex, paths)
                           THEN /\ result' = RaiseKeyError
                                /\ pc' = "error"
                                /\ stack' = rest
                                /\ UNCHANGED <<notified, paths, depths, expanded, iteration>>
                           ELSE IF _compose_path_diverges(vertex, paths)
                           THEN /\ pc' = "hang"
                                /\ stack' = rest
                                /\ UNCHANGED <<notified, paths, depths, result, expanded, iteration>>
                           ELSE IF _draw_path_raises("orange")
                                   \/ (vertex = goal /\ _draw_path_raises("green"))
                           THEN /\ result' = VisitError
                                /\ pc' = "error"
                                /\ stack' = rest
                                /\ UNCHANGED <<paths, depths, expanded, iteration>>
                                /\ VisitNotified(vertex)
                           ELSE IF vertex = goal
                           THEN /\ result' = ReturnPath(_compose_path(vertex, paths))
                                /\ pc' = "done"
                                /\ stack' = rest
                                /\ UNCHANGED <<paths, depths, expanded, iteration>>
                                /\ VisitNotified(vertex)
                           ELSE IF AtDepthLimit(vertex)
                           THEN /\ stack' = rest
                                /\ UNCHANGED <<paths, depths, pc, result, expanded,
                                               iteration>>
                                /\ VisitNotified(vertex)
                           ELSE IF vertex \notin DOMAIN graph
                           THEN /\ result' = RaiseKeyError
                                /\ pc' = "error"
                                /\ stack' = rest
                                /\ UNCHANGED <<paths, depths, expanded, iteration>>
                                /\ VisitNotified(vertex)
                           ELSE \E adjacent_vertices \in
                                    Orders(AdjacentVertices(vertex, visited', rest)) :
                                /\ stack' = rest \o adjacent_vertices
                                /\ paths' = SetItems(paths, Range(adjacent_vertices), vertex)
                                /\ depths' = SetItems(depths, Range(adjacent_vertices),
                                                      depths[vertex] + 1)
                                /\ expanded' = Append(expanded, vertex)
                                /\ iteration' = Iterated(Range(adjacent_vertices),
                                                         adjacent_vertices)
                                /\ UNCHANGED <<pc, result>>
                                /\ VisitNotified(vertex)

\* ------------------------------------------------------------------ IDS
\* The head of the loop of perform_ids if the inner search were called with
\* limit i instead of i + 1.
IdsLoopFromZero ==
    /\ algo = "ids"
    /\ pc = "ids_loop"
    /\ UNCHANGED <<inputs, process, notified, queue, frontier, bidi_state, costs, path, popped,
                   expanded, meeting, iteration>>
    /\ IF i < max_depth
       THEN /\ depth_limit' = i
            /\ stack' = <<root>>
            /\ visited' = {}
            /\ paths' = NoPaths
            /\ depths' = SetItem(NoDepths, root, 0)
            /\ pc' = "run"
            /\ UNCHANGED <<i, result>>
       ELSE /\ result' = ReturnNone
            /\ pc' = "done"
            /\ UNCHANGED <<depth_limit, stack, visited, paths, depths, i>>

\* Head of `for i in range(max_depth)`: call _perform_dls(root, goal, graph,
\* i + 1) with a fresh stack, visited set, PathMap and DepthMap, or fall off
\* the end of perform_ids, which returns None.
IdsLoop ==
    /\ algo = "ids"
    /\ pc = "ids_loop"
    /\ UNCHANGED <<inputs, process, notified, queue, frontier, bidi_state, costs, path, popped,
                   expanded, meeting, iteration>>
    /\ IF i < max_depth
       THEN /\ depth_limit' = i + 1
            /\ stack' = <<root>>
            /\ visited' = {}
            /\ paths' = NoPaths
            /\ depths' = SetItem(NoDepths, root, 0)
            /\ pc' = "run"
            /\ UNCHANGED <<i, result>>
       ELSE /\ result' = ReturnNone
            /\ pc' = "done"
            /\ UNCHANGED <<depth_limit, stack, visited, paths, depths, i>>

\* One iteration of `while stack` in _perform_dls of ids.py, or its return
\* to perform_ids.
IdsDlsStep ==
    /\ algo = "ids"
    /\ pc = "run"
    /\ UNCHANGED <<inputs, process, notified, depth_limit, queue, frontier, bidi_state, costs, i,
                   meeting>>
    /\ IF stack = <<>>
       THEN /\ path' = ReturnEmptySet
            /\ pc' = "ids_check"
            /\ UNCHANGED <<stack, visited, paths, depths, popped, expanded, iteration,
                           result>>
       ELSE LET vertex == stack[Len(stack)]
                rest == SubSeq(stack, 1, Len(stack) - 1)
            IN  /\ popped' = Append(popped, vertex)
                /\ IF vertex \in visited
                   THEN /\ stack' = rest
                        /\ UNCHANGED <<visited, paths, depths, pc, path, expanded,
                                       iteration, result>>
                   ELSE /\ visited' = visited \cup {vertex}
                        /\ IF vertex = goal
                           THEN /\ IF _compose_path_raises(vertex, paths)
                                   THEN /\ result' = RaiseKeyError
                                        /\ pc' = "error"
                                        /\ UNCHANGED path
                                   ELSE IF _compose_path_diverges(vertex, paths)
                                   THEN pc' = "hang" /\ UNCHANGED <<path, result>>
                                   ELSE /\ path' = ReturnPath(_compose_path(vertex, paths))
                                        /\ pc' = "ids_check"
                                        /\ UNCHANGED result
                                /\ stack' = rest
                                /\ UNCHANGED <<paths, depths, expanded, iteration>>
                           ELSE IF AtDepthLimit(vertex)
                           THEN /\ stack' = rest
                                /\ UNCHANGED <<paths, depths, pc, path, expanded,
                                               iteration, result>>
                           ELSE IF vertex \notin DOMAIN graph
                           THEN /\ result' = RaiseKeyError
                                /\ pc' = "error"
                                /\ stack' = rest
                                /\ UNCHANGED <<paths, depths, path, expanded, iteration>>
                           ELSE \E adjacent_vertices \in
                                    Orders(AdjacentVertices(vertex, visited', rest)) :
                                /\ stack' = rest \o adjacent_vertices
                                /\ paths' = SetItems(paths, Range(adjacent_vertices), vertex)
                                /\ depths' = SetItems(depths, Range(adjacent_vertices),
                                                      depths[vertex] + 1)
                                /\ expanded' = Append(expanded, vertex)
                                /\ iteration' = Iterated(Range(adjacent_vertices),
                                                         adjacent_vertices)
                                /\ UNCHANGED <<pc, path, result>>

\* `if path: return path` in perform_ids: a non-empty list is true, the
\* empty set is false and the loop goes on with the next i.
IdsCheck ==
    /\ algo = "ids"
    /\ pc = "ids_check"
    /\ UNCHANGED <<inputs, process, notified, depth_limit, stack, queue, frontier, bidi_state,
                   visited, paths, depths, costs, path, popped, expanded, meeting,
                   iteration>>
    /\ IF path.kind = "path" /\ Len(path.path) > 0
       THEN /\ result' = path
            /\ pc' = "done"
            /\ UNCHANGED i
       ELSE /\ i' = i + 1
            /\ pc' = "ids_loop"
            /\ UNCHANGED result

\* ------------------------------------------------------------------ UCS
\* The loop over the neighbours if the cost of an edge were read with
\* edge_costs.get(key, 0).
RECURSIVE UcsRelaxDefaultZero(_, _, _, _, _)
UcsRelaxDefaultZero(current_vertex, order, k, seen, st) ==
    IF k > Len(order) THEN st
    ELSE LET neighbor == order[k]
             key == EdgeKey(current_vertex, neighbor)
             cost == CostAdd(st.costs[current_vertex],
                             IF key \in DOMAIN edge_costs THEN edge_costs[key] ELSE 0)
         IN  IF neighbor \notin seen \/ CostLess(cost, st.costs[neighbor])
             THEN UcsRelaxDefaultZero(current_vertex, order, k + 1, seen,
                           [st EXCEPT !.costs = SetItem(@, neighbor, cost),
                                     !.paths = SetItem(@, neighbor, current_vertex),
                                     !.frontier = heappush(@, <<cost, neighbor>>)])
             ELSE UcsRelaxDefaultZero(current_vertex, order, k + 1, seen, st)

\* The body of `for neighbor in graph[current_vertex]` for the neighbours
\* order[k..], on st = [costs, paths, frontier, notified]; the loop is left
\* with raised set at the first edge whose key the cost table does not have,
\* or at which the notification of the visitor raises.
RECURSIVE UcsRelax(_, _, _, _, _)
UcsRelax(current_vertex, order, k, seen, st) ==
    IF k > Len(order) THEN st
    ELSE LET neighbor == order[k]
             seen_st == [st EXCEPT !.notified =
                            _draw_path(@, <<current_vertex, neighbor>>, "yellow")]
         IN  IF EdgeKey(current_vertex, neighbor) \notin DOMAIN edge_costs
             THEN [st EXCEPT !.raised = TRUE]
             ELSE IF _draw_path_raises("yellow")
             THEN [seen_st EXCEPT !.raised = TRUE, !.visitor = TRUE]
             ELSE LET cost == CostAdd(st.costs[current_vertex],
                                      edge_costs[EdgeKey(current_vertex, neighbor)])
                  IN  IF neighbor \notin seen \/ CostLess(cost, st.costs[neighbor])
                      THEN UcsRelax(current_vertex, order, k + 1, seen,
                                    [seen_st EXCEPT !.costs = SetItem(@, neighbor, cost),
                                                    !.paths = SetItem(@, neighbor, current_vertex),
                                                    !.frontier = heappush(@, <<cost, neighbor>>)])
                      ELSE UcsRelax(current_vertex, order, k + 1, seen, seen_st)

\* One iteration of `while frontier` in perform_ucs, or its exit.
PerformUcsStep ==
    /\ algo = "ucs"
    /\ pc = "run"
    /\ UNCHANGED <<inputs, process, depth_limit, stack, queue, bidi_state, depths, i,
                   path, meeting>>
    /\ IF frontier = <<>>
       THEN /\ result' = ReturnNone
            /\ pc' = "done"
            /\ UNCHANGED <<notified, frontier, visited, paths, costs, popped, expanded, iteration>>
       ELSE LET current_vertex == Head(frontier)[2]
                rest == Tail(frontier)
            IN  /\ popped' = Append(popped, current_vertex)
                /\ IF _compose_path_raises(current_vertex, paths)
                   THEN /\ result' = RaiseKeyError
                        /\ pc' = "error"
                        /\ frontier' = rest
                        /\ UNCHANGED <<notified, visited, paths, costs, expanded, iteration>>
                   ELSE IF _compose_path_diverges(current_vertex, paths)
                   THEN /\ pc' = "hang"
                        /\ frontier' = rest
                        /\ UNCHANGED <<notified, visited, paths, costs, result, expanded, iteration>>
                   ELSE IF _draw_path_raises("orange")
                           \/ (current_vertex = goal /\ _draw_path_raises("green"))
                   THEN /\ result' = VisitError
                        /\ pc' = "error"
                        /\ frontier' = rest
                        /\ UNCHANGED <<visited, paths, costs, expanded, iteration>>
                        /\ VisitNotified(current_vertex)
                   ELSE IF current_vertex = goal
                   THEN /\ result' = ReturnPath(_compose_path(current_vertex, paths))
                        /\ pc' = "done"
                        /\ frontier' = rest
                        /\ UNCHANGED <<visited, paths, costs, expanded, iteration>>
                        /\ VisitNotified(current_vertex)
                   ELSE /\ visited' = visited \cup {current_vertex}
                        /\ IF current_vertex \notin DOMAIN graph
                           THEN /\ result' = RaiseKeyError
                                /\ pc' = "error"
                                /\ frontier' = rest
                                /\ UNCHANGED <<paths, costs, expanded, iteration>>
                                /\ VisitNotified(current_vertex)
                           ELSE /\ expanded' = Append(expanded, current_vertex)
                                /\ \E order \in Orders(Neighbors(current_vertex)) :
                                     LET st == UcsRelax(current_vertex, order, 1, visited',
                                                        [costs |-> costs, paths |-> paths,
                                                         frontier |-> rest,
                                                         raised |-> FALSE, visitor |-> FALSE,
                                                         notified |-> Visit(current_vertex)])
                                     IN  /\ costs' = st.costs
                                         /\ paths' = st.paths
                                         /\ frontier' = st.frontier
                                         /\ drawn' = st.notified.drawn
                                         /\ ui_elements' = st.notified.ui_elements
                                         /\ iteration' = Iterated(Range(order), order)
                                         /\ IF st.raised
                                            THEN /\ result' = (IF st.visitor
                                                                THEN _draw_path_error("yellow")
                                                                ELSE RaiseKeyError)
                                                 /\ pc' = "error"
                                            ELSE UNCHANGED <<pc, result>>

\* ------------------------------------------------------------------ BIDI
\* `for v in adjacent_vertices` of either half of perform_bidi, from order[k]
\* on: stops at the first v whose PathMap entry is true (the meeting), and
\* until then records vertex as the parent of each v.  The test paths[v]
\* fails on a v that is not a key of the PathMap.
RECURSIVE BidiScan(_, _, _, _)
BidiScan(vertex, order, k, ps) ==
    IF k > Len(order) THEN [met |-> FALSE, raised |-> FALSE, v |-> vertex, paths |-> ps]
    ELSE IF order[k] \notin DOMAIN ps
    THEN [met |-> FALSE, raised |-> TRUE, v |-> order[k], paths |-> ps]
    ELSE IF Truthy(ps[order[k]])
    THEN [met |-> TRUE, raised |-> FALSE, v |-> order[k], paths |-> ps]
    ELSE BidiScan(vertex, order, k + 1, [ps EXCEPT ![order[k]] = vertex])

\* The vertices whose parent the scan wrote: those iterated before the one
\* at which it stopped, or all of them.
ScanAssigned(order, scan) ==
    IF scan.met \/ scan.raised
    THEN {order[k] : k \in {j \in 1..Len(order) : \A m \in 1..j : order[m] /= scan.v}}
    ELSE Range(order)

\* The half that last wrote each entry of the PathMap, after a scan by side.
ScanAssigner(order, scan, side) ==
    [v \in DOMAIN assigner |-> IF v \in ScanAssigned(order, scan) THEN side ELSE assigner[v]]

\* The root half of one iteration of `while root_queue or goal_queue`,
\* preceded by the loop test.
BidiRootStep ==
    /\ algo = "bidi"
    /\ pc = "run"
    /\ turn = "root"
    /\ UNCHANGED <<inputs, process, notified, depth_limit, stack, queue, frontier, visited, depths,
                   costs, i, path, goal_queue, goal_visited>>
    /\ IF root_queue = <<>> /\ goal_queue = <<>>
       THEN /\ result' = ReturnEmptySet
            /\ pc' = "done"
            /\ UNCHANGED <<root_queue, root_visited, turn, paths, assigner, popped, expanded,
                           meeting, iteration>>
       ELSE IF root_queue = <<>>
       THEN /\ turn' = "goal"
            /\ UNCHANGED <<root_queue, root_visited, paths, assigner, pc, result, popped, expanded,
                           meeting, iteration>>
       ELSE LET vertex == Head(root_queue)
                rest == Tail(root_queue)
            IN  /\ popped' = Append(popped, vertex)
                /\ turn' = "goal"
                /\ IF vertex \in root_visited
                   THEN /\ root_queue' = rest
                        /\ UNCHANGED <<root_visited, paths, assigner, pc, result, expanded, meeting,
                                       iteration>>
                   ELSE /\ root_visited' = root_visited \cup {vertex}
                        /\ IF vertex \notin DOMAIN graph
                           THEN /\ result' = RaiseKeyError
                                /\ pc' = "error"
                                /\ root_queue' = rest
                                /\ UNCHANGED <<paths, assigner, expanded, meeting, iteration>>
                           ELSE /\ expanded' = Append(expanded, vertex)
                                /\ \E adjacent_vertices \in
                                       Orders(AdjacentVertices(vertex, root_visited', rest)) :
                                     LET scan == BidiScan(vertex, adjacent_vertices, 1, paths)
                                     IN  /\ root_queue' = rest \o adjacent_vertices
                                         /\ paths' = scan.paths
                                         /\ assigner' = ScanAssigner(adjacent_vertices, scan, "root")
                                         /\ iteration' = Iterated(Range(adjacent_vertices),
                                                                  adjacent_vertices)
                                         /\ IF scan.raised
                                            THEN /\ result' = RaiseKeyError
                                                 /\ pc' = "error"
                                                 /\ UNCHANGED meeting
                                            ELSE IF ~scan.met
                                            THEN UNCHANGED <<pc, result, meeting>>
                                            ELSE IF _compose_path_raises(vertex, scan.paths)
                                                    \/ _compose_path_raises(scan.v, scan.paths)
                                            THEN /\ result' = RaiseKeyError
                                                 /\ pc' = "error"
                                                 /\ UNCHANGED meeting
                                            ELSE IF _compose_path_diverges(scan.v, scan.paths)
                                                    \/ _compose_path_diverges(vertex, scan.paths)
                                            THEN pc' = "hang" /\ UNCHANGED <<result, meeting>>
                                            ELSE /\ result' = ReturnPath(
                                                       _compose_path(vertex, scan.paths)
                                                       \o Reverse(_compose_path(scan.v, scan.paths)))
                                                 /\ meeting' = <<vertex, scan.v>>
                                                 /\ pc' = "done"

\* The goal half of the same iteration.
BidiGoalStep ==
    /\ algo = "bidi"
    /\ pc = "run"
    /\ turn = "goal"
    /\ UNCHANGED <<inputs, process, notified, depth_limit, stack, queue, frontier, visited, depths,
                   costs, i, path, root_queue, root_visited>>
    /\ turn' = "root"
    /\ IF goal_queue = <<>>
       THEN UNCHANGED <<goal_queue, goal_visited, paths, assigner, pc, result, popped, expanded,
                        meeting, iteration>>
       ELSE LET vertex == Head(goal_queue)
                rest == Tail(goal_queue)
            IN  /\ popped' = Append(popped, vertex)
                /\ IF vertex \in goal_visited
                   THEN /\ goal_queue' = rest
                        /\ UNCHANGED <<goal_visited, paths, assigner, pc, result, expanded, meeting,
                                       iteration>>
                   ELSE /\ goal_visited' = goal_visited \cup {vertex}
                        /\ IF vertex \notin DOMAIN graph
                           THEN /\ result' = RaiseKeyError
                                /\ pc' = "error"
                                /\ goal_queue' = rest
                                /\ UNCHANGED <<paths, assigner, expanded, meeting, iteration>>
                           ELSE /\ expanded' = Append(expanded, vertex)
                                /\ \E adjacent_vertices \in
                                       Orders(AdjacentVertices(vertex, goal_visited', rest)) :
                                     LET scan == BidiScan(vertex, adjacent_vertices, 1, paths)
                                     IN  /\ goal_queue' = rest \o adjacent_vertices
                                         /\ paths' = scan.paths
                                         /\ assigner' = ScanAssigner(adjacent_vertices, scan, "goal")
                                         /\ iteration' = Iterated(Range(adjacent_vertices),
                                                                  adjacent_vertices)
                                         /\ IF scan.raised
                                            THEN /\ result' = RaiseKeyError
                                                 /\ pc' = "error"
                                                 /\ UNCHANGED meeting
                                            ELSE IF ~scan.met
                                            THEN UNCHANGED <<pc, result, meeting>>
                                            ELSE IF _compose_path_raises(vertex, scan.paths)
                                                    \/ _compose_path_raises(scan.v, scan.paths)
                                            THEN /\ result' = RaiseKeyError
                                                 /\ pc' = "error"
                                                 /\ UNCHANGED meeting
                                            ELSE IF _compose_path_diverges(vertex, scan.paths)
                                                    \/ _compose_path_diverges(scan.v, scan.paths)
                                            THEN pc' = "hang" /\ UNCHANGED <<result, meeting>>
                                            ELSE /\ result' = ReturnPath(
                                                       _compose_path(scan.v, scan.paths)
                                                       \o Reverse(_compose_path(vertex, scan.paths)))
                                                 /\ meeting' = <<vertex, scan.v>>
                                                 /\ pc' = "done"

Next ==
    \/ PerformDfsStep
    \/ PerformBfsStep
    \/ PerformDlsStep
    \/ IdsLoop
    \/ IdsDlsStep
    \/ IdsCheck
    \/ PerformUcsStep
    \/ BidiRootStep
    \/ BidiGoalStep

Spec == Init /\ [][Next]_vars

\* The same searches on the inputs in which the false identifier 0 is never
\* a parent: root is not 0 and 0 has no outgoing edge.  Uniform-cost search
\* is given graphs with one more edge than in Spec.
InitZeroSink ==
    /\ root \in Vertices \ {0}
    /\ goal \in Vertices
    /\ SingleCall
    /\ \/ graph \in GraphsUpTo(MaxEdges) /\ InitUnweighted
       \/ InitUcsUpTo(MaxUcsEdges + 1)
    /\ graph[0] = {}

SpecZeroSink == InitZeroSink /\ [][Next]_vars

\* ------------------------------------------------- depth-limited searches
\* Depth-limited and iterative-deepening search on the graphs over the
\* vertices 1..6 whose edges are among 1->2, 1->3, 3->4, 4->5, 2->5, 5->6:
\* vertex 5 is two edges from 1 through 2 and three edges through 3 and 4.
DeepVertices == 1..6

DeepEdges == {<<1, 2>>, <<1, 3>>, <<3, 4>>, <<4, 5>>, <<2, 5>>, <<5, 6>>}

DeepGraphs ==
    {[v \in DeepVertices |-> {w \in DeepVertices : <<v, w>> \in E}] : E \in SUBSET DeepEdges}

InitDeep ==
    /\ root \in DeepVertices
    /\ goal \in DeepVertices
    /\ SingleCall
    /\ graph \in DeepGraphs
    /\ \/ InitDlsIn(0..4)
       \/ InitIdsIn(0..4)

NextDeep ==
    \/ PerformDlsStep
    \/ IdsLoop
    \/ IdsDlsStep
    \/ IdsCheck

SpecDeep == InitDeep /\ [][NextDeep]_vars

\* Breadth-first search on the same graphs.
InitDeepBfs ==
    /\ root \in DeepVertices
    /\ goal \in DeepVertices
    /\ SingleCall
    /\ graph \in DeepGraphs
    /\ InitBfs

NextBfs == PerformBfsStep

SpecDeepBfs == InitDeepBfs /\ [][NextBfs]_vars

\* ------------------------------------------------------- missing entries
\* The six searches on graphs in which a vertex named in a neighbour set,
\* or root or goal, need not be a key.
InitMissingKey ==
    /\ root \in Vertices
    /\ goal \in Vertices
    /\ SingleCall
    /\ graph \in PartialGraphsUpTo(MaxUcsEdges)
    /\ \/ InitUnweighted
       \/ edge_costs \in [EdgeKeys(graph) -> 0..MaxCost] /\ InitUcsLocals

SpecMissingKey == InitMissingKey /\ [][Next]_vars

\* Cost tables that have an entry for some of the edges only.
PartialCostTables(g) == UNION {[K -> 0..MaxCost] : K \in SUBSET EdgeKeys(g)}

\* perform_ucs with a cost table that may lack the key of an edge.
InitMissingCost ==
    /\ root \in Vertices
    /\ goal \in Vertices
    /\ SingleCall
    /\ graph \in GraphsUpTo(MaxUcsEdges)
    /\ edge_costs \in PartialCostTables(graph)
    /\ InitUcsLocals

NextUcs == PerformUcsStep

SpecMissingCost == InitMissingCost /\ [][NextUcs]_vars

\* ------------------------------------------------- several calls in a process
\* A call of a search with positional arguments and no visitor: which
\* search, and the limit handed to perform_dls as depth_limit or to
\* perform_ids as max_depth.
Call(a, limit) == [algo |-> a, limit |-> limit]

\* The call that is running or has just ended.
CurrentCall ==
    Call(algo, IF algo = "dls" THEN depth_limit ELSE IF algo = "ids" THEN max_depth ELSE 0)

\* The next call of the process starts when the previous one has returned
\* or raised: every local of the search is created anew from the arguments.
NextCall ==
    /\ pc \in {"idle", "done", "error"}
    /\ plan /= <<>>
    /\ LET call == Head(plan)
       IN  /\ algo' = call.algo
           /\ depth_limit' = (IF call.algo = "dls" THEN call.limit ELSE 0)
           /\ max_depth' = (IF call.algo = "ids" THEN call.limit ELSE 0)
           /\ stack' = (IF call.algo \in {"dfs", "dls"} THEN <<root>> ELSE <<>>)
           /\ queue' = (IF call.algo = "bfs" THEN <<root>> ELSE <<>>)
           /\ frontier' = (IF call.algo = "ucs" THEN <<<<0, root>>>> ELSE <<>>)
           /\ root_queue' = (IF call.algo = "bidi" THEN <<root>> ELSE <<>>)
           /\ goal_queue' = (IF call.algo = "bidi" THEN <<goal>> ELSE <<>>)
           /\ depths' = (IF call.algo = "dls" THEN SetItem(NoDepths, root, 0) ELSE NoDepths)
           /\ costs' = (IF call.algo = "ucs" THEN SetItem(NoCosts, root, 0) ELSE NoCosts)
           /\ pc' = (IF call.algo = "ids" THEN "ids_loop" ELSE "run")
    /\ visited' = {} /\ root_visited' = {} /\ goal_visited' = {} /\ turn' = "root" /\ assigner' = NoAssigner
    /\ paths' = NoPaths
    /\ i' = 0 /\ path' = Pending
    /\ result' = Pending
    /\ popped' = <<>> /\ expanded' = <<>> /\ meeting' = <<>>
    /\ plan' = Tail(plan)
    /\ returned' = IF pc = "idle" THEN returned
                   ELSE Append(returned, [call |-> CurrentCall, result |-> result])
    /\ UNCHANGED <<graph, root, goal, edge_costs, draw_path, notified, iteration>>

\* perform_ids with max_depth D, then perform_dls with each limit 1..D.
PlanIdsDls(D) == <<Call("ids", D)>> \o [k \in 1..D |-> Call("dls", k)]

\* The calls a process repeats.
RepeatedCalls ==
    {Call(a, 0) : a \in {"dfs", "bfs", "ucs", "bidi"}}
        \cup {Call(a, MaxDepth) : a \in {"dls", "ids"}}

\* A call, any other call, and the first call again.
PlanRepeat == {<<a, b, a>> : a \in RepeatedCalls, b \in RepeatedCalls}

\* A process with a fixed set iteration order that has loaded a graph with
\* its cost table and is about to make the calls of its plan.
InitProcess ==
    /\ root \in Vertices
    /\ goal \in Vertices
    /\ graph \in GraphsUpTo(MaxUcsEdges)
    /\ edge_costs \in [EdgeKeys(graph) -> {1}]
    /\ plan \in PlanRepeat \cup {PlanIdsDls(D) : D \in 0..MaxDepth}
    /\ returned = <<>>
    /\ draw_path = NoVisitor
    /\ ui_elements = NoCollection
    /\ drawn = <<>>
    /\ iteration = FixedOrder
    /\ algo = "none"
    /\ pc = "idle"
    /\ result = Pending
    /\ popped = <<>> /\ expanded = <<>> /\ meeting = <<>>
    /\ stack = <<>> /\ queue = <<>> /\ frontier = <<>>
    /\ root_queue = <<>> /\ goal_queue = <<>>
    /\ visited = {} /\ root_visited = {} /\ goal_visited = {} /\ turn = "root" /\ assigner = NoAssigner
    /\ paths = NoPaths /\ depths = NoDepths /\ costs = NoCosts
    /\ depth_limit = 0 /\ max_depth = 0 /\ i = 0 /\ path = Pending

NextProcess ==
    \/ NextCall
    \/ Next

SpecProcess == InitProcess /\ [][NextProcess]_vars

\* The calls that have ended, each with what it returned, the running call
\* included once it has ended.
Finished ==
    IF pc \in {"done", "error"}
    THEN Append(returned, [call |-> CurrentCall, result |-> result])
    ELSE returned

\* ------------------------------------------------------- searches with a visitor
\* perform_dfs, perform_bfs, perform_dls and perform_ucs, the searches that
\* take a visitor, handed any visitor or none.
InitVisitor ==
    /\ root \in Vertices
    /\ goal \in Vertices
    /\ SingleCallWith(Visitors)
    /\ \/ graph \in GraphsUpTo(MaxUcsEdges) /\ (InitDfs \/ InitBfs \/ InitDls)
       \/ InitUcs

NextVisitor ==
    \/ PerformDfsStep
    \/ PerformBfsStep
    \/ PerformDlsStep
    \/ PerformUcsStep

SpecVisitor == InitVisitor /\ [][NextVisitor]_vars

\* ------------------------------------------------------- two small graphs
\* {A: {B}, B: {C}, C: {}} with the vertices A, B, C written 1, 2, 3.
ChainGraph == (1 :> {2}) @@ (2 :> {3}) @@ (3 :> {})

\* {A: {B, C}, B: {D}, C: {D}, D: {}} with A, B, C, D written 1, 2, 3, 4.
DiamondGraph == (1 :> {2, 3}) @@ (2 :> {4}) @@ (3 :> {4}) @@ (4 :> {})

\* Every search on either graph, between any two of its vertices; the
\* uniform-cost search with every edge cost equal to 1.
InitExamples ==
    /\ graph \in {ChainGraph, DiamondGraph}
    /\ root \in DOMAIN graph
    /\ goal \in DOMAIN graph
    /\ SingleCall
    /\ \/ InitUnweighted
       \/ edge_costs = [key \in EdgeKeys(graph) |-> 1] /\ InitUcsLocals

SpecExamples == InitExamples /\ [][Next]_vars

\* ------------------------------------------------- searches that keep running
\* perform_dls and perform_ids as a running program: a loop iteration that
\* can be made is made.
InitDlsFair ==
    /\ root \in Vertices
    /\ goal \in Vertices
    /\ SingleCall
    /\ graph \in GraphsUpTo(MaxUcsEdges)
    /\ \/ InitDls
       \/ InitIds

SpecDlsFair == InitDlsFair /\ [][NextDeep]_vars /\ WF_vars(NextDeep)

\* perform_ucs as a running program, every cost in 0..MaxCost.
InitUcsFair ==
    /\ root \in Vertices
    /\ goal \in Vertices
    /\ SingleCall
    /\ InitUcs

SpecUcsFair == InitUcsFair /\ [][NextUcs]_vars /\ WF_vars(NextUcs)

\* The searches over a stack or a queue.
NextFrontier ==
    \/ PerformDfsStep
    \/ PerformBfsStep
    \/ PerformDlsStep
    \/ IdsLoop
    \/ IdsDlsStep
    \/ IdsCheck

\* perform_dfs, perform_bfs, perform_dls and perform_ids as running programs.
InitFrontierFair ==
    /\ root \in Vertices
    /\ goal \in Vertices
    /\ SingleCall
    /\ graph \in GraphsUpTo(MaxEdges)
    /\ \/ InitDfs
       \/ InitBfs
       \/ InitDls
       \/ InitIds

SpecFrontierFair == InitFrontierFair /\ [][NextFrontier]_vars /\ WF_vars(NextFrontier)

\* ------------------------------------------------------------ the dispatcher
\* The values of algo_index tried: the six searches and a choice that is
\* none of them.
AlgoIndexes == (0..5) \cup {7}

\* The search main calls for an algo_index.
Selected(algo_index) ==
    CASE algo_index = 0 -> "dfs"
      [] algo_index = 1 -> "bfs"
      [] algo_index = 2 -> "dls"
      [] algo_index = 3 -> "ids"
      [] algo_index = 4 -> "bidi"
      [] algo_index = 5 -> "ucs"
      [] OTHER -> "none"

\* The searches whose parameter list has draw_path and ui_elements.
TakesVisitor == {"dfs", "bfs", "dls", "ucs"}

\* main(ui_elements), for the algo_index at the head of plan: the collection
\* is cleared and given the element -1, and the selected search is called
\* with the loaded configuration, draw_path=draw_path and
\* ui_elements=ui_elements.  The call of a search that has no such
\* parameters raises a TypeError before the search begins, and so does
\* `raise("[INVALID CHOICE]")`.  The depth_limit and max_depth of the
\* configuration are the model's depth_limit and max_depth.
main ==
    /\ pc \in {"idle", "done", "error"}
    /\ plan /= <<>>
    /\ LET algo_index == Head(plan)
           selected == Selected(algo_index)
       IN  /\ algo' = selected
           /\ ui_elements' = Collection(<<-1>>)
           /\ drawn' = <<>>
           /\ IF selected \in TakesVisitor
              THEN /\ stack' = (IF selected \in {"dfs", "dls"} THEN <<root>> ELSE <<>>)
                   /\ queue' = (IF selected = "bfs" THEN <<root>> ELSE <<>>)
                   /\ frontier' = (IF selected = "ucs" THEN <<<<0, root>>>> ELSE <<>>)
                   /\ depths' = (IF selected = "dls" THEN SetItem(NoDepths, root, 0)
                                                     ELSE NoDepths)
                   /\ costs' = (IF selected = "ucs" THEN SetItem(NoCosts, root, 0)
                                                    ELSE NoCosts)
                   /\ result' = Pending
                   /\ pc' = "run"
              ELSE /\ stack' = <<>> /\ queue' = <<>> /\ frontier' = <<>>
                   /\ depths' = NoDepths /\ costs' = NoCosts
                   /\ result' = RaiseTypeError
                   /\ pc' = "error"
    /\ visited' = {} /\ paths' = NoPaths
    /\ i' = 0 /\ path' = Pending
    /\ popped' = <<>> /\ expanded' = <<>> /\ meeting' = <<>>
    /\ plan' = Tail(plan)
    /\ returned' = IF pc = "idle" THEN returned
                   ELSE Append(returned, [call |-> CurrentCall, result |-> result])
    /\ UNCHANGED <<graph, root, goal, depth_limit, max_depth, edge_costs, draw_path,
                   bidi_state, iteration>>

\* The choices entered before Start is pressed, for two presses.
MainPlans == {<<a>> : a \in AlgoIndexes} \cup {<<a, b>> : a, b \in AlgoIndexes}

\* The process of main.py after it has loaded a graph configuration with a
\* cost for every edge and before Start is pressed.
InitMain ==
    /\ root \in Vertices
    /\ goal \in Vertices
    /\ graph \in GraphsUpTo(MaxUcsEdges)
    /\ edge_costs \in [EdgeKeys(graph) -> {1}]
    /\ depth_limit \in DepthArgs
    /\ max_depth \in DepthArgs
    /\ plan \in MainPlans
    /\ returned = <<>>
    /\ draw_path = MainVisitor
    /\ ui_elements = Collection(<<-1>>)
    /\ drawn = <<>>
    /\ iteration = FixedOrder
    /\ algo = "none"
    /\ pc = "idle"
    /\ result = Pending
    /\ popped = <<>> /\ expanded = <<>> /\ meeting = <<>>
    /\ stack = <<>> /\ queue = <<>> /\ frontier = <<>>
    /\ root_queue = <<>> /\ goal_queue = <<>>
    /\ visited = {} /\ root_visited = {} /\ goal_visited = {} /\ turn = "root"
    /\ assigner = NoAssigner
    /\ paths = NoPaths /\ depths = NoDepths /\ costs = NoCosts
    /\ i = 0 /\ path = Pending

NextMain ==
    \/ main
    \/ PerformDfsStep
    \/ PerformBfsStep
    \/ PerformDlsStep
    \/ PerformUcsStep

SpecMain == InitMain /\ [][NextMain]_vars

\* ------------------------------------------------- notions the claims use
\* The neighbour set of v, empty for a v that is not a key of the graph.
Successors(v) == IF v \in DOMAIN graph THEN graph[v] ELSE {}

\* Vertices reachable from the vertices of S along directed edges.
RECURSIVE ReachableFrom(_)
ReachableFrom(S) ==
    LET T == S \cup UNION {Successors(v) : v \in S}
    IN  IF T = S THEN S ELSE ReachableFrom(T)

GoalReachable == goal \in ReachableFrom({root})

\* Least number of edges of a directed path from S to t (-1: none), where k
\* edges have been used to reach S.
RECURSIVE Distance(_, _, _)
Distance(S, t, k) ==
    IF t \in S THEN k
    ELSE LET T == S \cup UNION {Successors(v) : v \in S}
         IN  IF T = S THEN -1 ELSE Distance(T, t, k + 1)

\* p starts at root, ends at goal, and each consecutive pair is an edge.
IsRootToGoalPath(p) ==
    /\ Len(p) >= 1
    /\ p[1] = root
    /\ p[Len(p)] = goal
    /\ \A k \in 1..(Len(p) - 1) : p[k + 1] \in Successors(p[k])

RECURSIVE PathCost(_)
PathCost(p) ==
    IF Len(p) <= 1 THEN 0
    ELSE edge_costs[EdgeKey(p[1], p[2])] + PathCost(Tail(p))

\* Cheapest cost from root to every vertex by k rounds of relaxation over
\* all edges (inf: not reached).
RECURSIVE Cheapest(_, _)
Cheapest(d, k) ==
    IF k = 0 THEN d
    ELSE Cheapest(
           [v \in Vertices |->
              LET via == {CostAdd(d[u], edge_costs[EdgeKey(u, v)]) :
                            u \in {x \in Vertices : v \in graph[x] /\ d[x] /= inf}}
                  cand == via \cup (IF d[v] = inf THEN {} ELSE {d[v]})
              IN  IF cand = {} THEN inf
                  ELSE CHOOSE c \in cand : \A c2 \in cand : c <= c2],
           k - 1)

MinCost ==
    Cheapest([v \in Vertices |-> IF v = root THEN 0 ELSE inf], Cardinality(Vertices))[goal]

AllCostsPositive == \A k \in DOMAIN edge_costs : edge_costs[k] > 0

NoPathKinds == {"set()", "None"}

\* ------------------------------------------------------------------ claims

\* C1: with goal reachable from root, perform_dfs and perform_bfs return a
\* sequence that starts at root, ends at goal and follows edges of the graph.
C1_DfsBfsReturnValidPath ==
    (algo \in {"dfs", "bfs"} /\ GoalReachable /\ pc = "done")
        => (result.kind = "path" /\ IsRootToGoalPath(result.path))

\* C2: with goal reachable from root, the path perform_bfs returns has as
\* many edges as the shortest directed root-to-goal path.
C2_BfsShortest ==
    (algo = "bfs" /\ GoalReachable /\ pc = "done")
        => (result.kind = "path"
            /\ Len(result.path) - 1 = Distance({root}, goal, 0))

\* C3: with every edge cost positive and goal reachable, the edge costs of
\* the path perform_ucs returns sum to the least cost of any root-to-goal path.
C3_UcsCheapest ==
    (algo = "ucs" /\ AllCostsPositive /\ GoalReachable /\ pc = "done")
        => (/\ result.kind = "path"
            /\ IsRootToGoalPath(result.path)
            /\ PathCost(result.path) = MinCost)

\* C4: with non-negative edge costs and goal reachable, perform_ucs returns a
\* sequence that starts at root, ends at goal and follows edges of the graph.
C4_UcsReturnsValidPath ==
    (algo = "ucs" /\ GoalReachable /\ pc = "done")
        => (result.kind = "path" /\ IsRootToGoalPath(result.path))

\* C5: with goal reachable from root, perform_bidi returns a sequence that
\* starts at root, ends at goal and follows edges; it does not report no path.
C5_BidiReturnsValidPath ==
    (algo = "bidi" /\ GoalReachable /\ pc = "done")
        => (result.kind = "path" /\ IsRootToGoalPath(result.path))

C7_BidiUnreachableNoPath ==
    (algo = "bidi" /\ ~GoalReachable)
        => (result.kind /= "path" /\ (pc = "done" => result.kind = "set()"))

\* C8: perform_bidi terminates: path reconstruction over the shared PathMap
\* is never started on a parent chain that contains a cycle.
C8_BidiTerminates == algo = "bidi" => pc /= "hang"

\* C9: with root = goal, perform_dfs, perform_bfs, perform_dls (limit >= 0),
\* perform_ids (max_depth >= 1) and perform_ucs return exactly [root], after
\* popping root alone and without expanding any vertex.
C9_SelfPath ==
    (/\ root = goal
     /\ algo \in {"dfs", "bfs", "dls", "ids", "ucs"}
     /\ (algo = "dls" => depth_limit >= 0)
     /\ (algo = "ids" => max_depth >= 1))
        => (/\ pc /= "hang"
            /\ expanded = <<>>
            /\ popped \in {<<>>, <<root>>}
            /\ (popped = <<root>> =>
                  \/ pc = "done"
                  \/ pc = "ids_check" /\ path = ReturnPath(<<root>>))
            /\ (pc = "done" => result = ReturnPath(<<root>>) /\ popped = <<root>>)
            /\ i = 0)

\* C9 witness: iterative deepening from a root that has neighbours returned
\* [root] for goal = root.
C9_Witness ==
    /\ root = goal
    /\ algo = "ids"
    /\ max_depth >= 1
    /\ graph[root] /= {}
    /\ pc = "done"
    /\ result = ReturnPath(<<root>>)

\* C10: with root = goal, perform_bidi returns exactly [root].
C10_BidiSelfPath ==
    (algo = "bidi" /\ root = goal /\ pc = "done") => result = ReturnPath(<<root>>)


\* C11: a path perform_ids returns is a root-to-goal path with as few edges
\* as any directed root-to-goal path has, whatever the graph, max_depth and
\* iteration order.
C11_IdsShortest ==
    (algo = "ids" /\ pc = "done" /\ result.kind = "path")
        => (/\ IsRootToGoalPath(result.path)
            /\ Len(result.path) - 1 = Distance({root}, goal, 0))

\* What the call of perform_dls with limit k returned, among the calls that
\* have ended.
DlsResults(k) == {Finished[n].result : n \in {m \in DOMAIN Finished : Finished[m].call = Call("dls", k)}}

\* The limits 1..D for which the ended call of perform_dls returned a path.
DlsLimitsWithPath(D) == {k \in 1..D : \E r \in DlsResults(k) : r.kind = "path"}

\* The ended calls of perform_ids whose max_depth D has every perform_dls
\* call with a limit in 1..D ended in the same process.
IdsCallsCompared ==
    {n \in DOMAIN Finished :
        /\ Finished[n].call.algo = "ids"
        /\ \A k \in 1..Finished[n].call.limit : DlsResults(k) /= {}}

Least(S) == CHOOSE k \in S : \A m \in S : k <= m

C13_DlsFindsGoalWithinLimit ==
    (/\ algo = "dls"
     /\ pc = "done"
     /\ Distance({root}, goal, 0) >= 0
     /\ Distance({root}, goal, 0) <= depth_limit)
        => (result.kind = "path" /\ IsRootToGoalPath(result.path))

\* C14: for depth_limit >= 0, a path perform_dls returns has at most
\* depth_limit edges, and every vertex on the stack has a recorded depth in
\* 0..depth_limit that is the number of edges of its reconstructed chain of
\* parents.
C14_DlsDepthIsChainLength ==
    (algo = "dls" /\ depth_limit >= 0)
        => (/\ (pc = "done" /\ result.kind = "path")
                  => Len(result.path) - 1 <= depth_limit
            /\ \A v \in Range(stack) :
                  /\ depths[v] \in 0..depth_limit
                  /\ depths[v] = Len(_compose_path(v, paths)) - 1)

\* The vertices a half of perform_bidi has discovered: visited or queued.
RootTree == root_visited \cup Range(root_queue)
GoalTree == goal_visited \cup Range(goal_queue)

\* C15: when perform_bidi returns a path, the vertex at which the two
\* searches met has been discovered by both of them, and the path is a
\* root-to-goal path with as few edges as any.
C15_BidiShortestThroughMeeting ==
    (algo = "bidi" /\ pc = "done" /\ result.kind = "path")
        => (/\ meeting[2] \in RootTree
            /\ meeting[2] \in GoalTree
            /\ IsRootToGoalPath(result.path)
            /\ Len(result.path) - 1 = Distance({root}, goal, 0))

C17_InputsUnchanged == [][graph' = graph /\ edge_costs' = edge_costs]_vars

\* C17 witness: a uniform-cost search over a graph with edges ran to its end
\* after expanding two vertices.
C17_Witness ==
    /\ algo = "ucs"
    /\ pc = "done"
    /\ Len(expanded) >= 2
    /\ DOMAIN edge_costs /= {}

\* C18: popping a vertex other than goal that is named in a neighbour set
\* but is not a key of the graph does not end the search with a lookup
\* failure.
C18_MissingKeyIsEmptySet ==
    (/\ popped /= <<>>
     /\ popped[Len(popped)] /= goal
     /\ popped[Len(popped)] \notin DOMAIN graph
     /\ \E u \in DOMAIN graph : popped[Len(popped)] \in graph[u])
        => pc /= "error"

\* An edge out of v has no entry in the cost table.
HasMissingCost(v) == \E w \in Successors(v) : EdgeKey(v, w) \notin DOMAIN edge_costs

\* C19: when perform_ucs expands a vertex with an outgoing edge that has no
\* entry in the cost table, the call ends in an error at that expansion; it
\* expands nothing after it and returns no path.
C19_MissingCostRaises ==
    algo = "ucs"
        => (/\ \A k \in DOMAIN expanded :
                  HasMissingCost(expanded[k])
                      => (k = Len(expanded) /\ pc = "error" /\ result = RaiseKeyError)
            /\ result.kind = "path"
                  => \A k \in 1..(Len(result.path) - 1) :
                        EdgeKey(result.path[k], result.path[k + 1]) \in DOMAIN edge_costs)

\* C19 witness: the second vertex expanded had an edge without a cost, after
\* the first one had pushed it with a cost from the table.
C19_Witness ==
    /\ algo = "ucs"
    /\ pc = "error"
    /\ Len(expanded) = 2
    /\ ~HasMissingCost(expanded[1])
    /\ HasMissingCost(expanded[2])

\* C20: perform_dls with depth_limit <= 0 and perform_ids with max_depth <= 0
\* return no value: the call fails.
C20_NonPositiveLimitRejected ==
    (\/ algo = "dls" /\ depth_limit <= 0
     \/ algo = "ids" /\ max_depth <= 0)
        => pc /= "done"

\* C21: a failure of the visitor during a notification does not end
\* perform_dfs, perform_bfs, perform_dls or perform_ucs: no call of them ends
\* with the exception the visitor raised.
C21_VisitorFailureDoesNotAbort ==
    algo \in {"dfs", "bfs", "dls", "ucs"} => result /= RaiseVisitorError

\* C22: a search that ends without a path returns the empty set, whichever
\* of the six searches it is.
C22_OneNoPathValue ==
    (pc = "done" /\ result.kind /= "path") => result = ReturnEmptySet

\* C23: on the graph {A: {B}, B: {C}, C: {}} with root A and goal C,
\* perform_dls returns no path with depth_limit 1 and returns exactly
\* [A, B, C] with depth_limit 2.
C23_ChainDepthLimit ==
    (/\ algo = "dls"
     /\ graph = ChainGraph
     /\ root = 1
     /\ goal = 3)
        => (/\ pc \in {"run", "done"}
            /\ (pc = "done" /\ depth_limit = 1) => result = ReturnEmptySet
            /\ (pc = "done" /\ depth_limit = 2) => result = ReturnPath(<<1, 2, 3>>))

\* C23 witness: the search with limit 1 ended without a path after it had
\* popped B and not expanded it.
C23_Witness ==
    /\ algo = "dls"
    /\ graph = ChainGraph
    /\ root = 1
    /\ goal = 3
    /\ depth_limit = 1
    /\ pc = "done"
    /\ popped = <<1, 2>>
    /\ expanded = <<1>>
    /\ result = ReturnEmptySet

\* C24: on the graph {A: {B, C}, B: {D}, C: {D}, D: {}} with root A and goal
\* D, whatever the iteration order: perform_bfs returns [A, B, D] or
\* [A, C, D]; perform_dfs returns a root-to-goal path of three vertices;
\* perform_ucs with every edge cost 1 returns a root-to-goal path of three
\* vertices whose costs sum to 2.
C24_DiamondPaths ==
    (/\ algo \in {"bfs", "dfs", "ucs"}
     /\ graph = DiamondGraph
     /\ root = 1
     /\ goal = 4)
        => (/\ pc \in {"run", "done"}
            /\ pc = "done" =>
                 /\ result.kind = "path"
                 /\ Len(result.path) = 3
                 /\ IsRootToGoalPath(result.path)
                 /\ algo = "bfs" => result.path \in {<<1, 2, 4>>, <<1, 3, 4>>}
                 /\ algo = "ucs" => PathCost(result.path) = 2)

\* C24 witness: the uniform-cost search returned the path through C after
\* it had expanded A, B and C.
C24_Witness ==
    /\ algo = "ucs"
    /\ graph = DiamondGraph
    /\ root = 1
    /\ goal = 4
    /\ pc = "done"
    /\ Len(expanded) = 3
    /\ result = ReturnPath(<<1, 3, 4>>)

\* s names no vertex twice.
NoDuplicates(s) == \A j, k \in DOMAIN s : s[j] = s[k] => j = k

\* C25: in perform_dfs, perform_bfs and perform_dls a vertex that is in the
\* visited set is never processed again: no vertex is popped twice, the
\* popped vertices are exactly the visited ones, and no vertex is expanded
\* twice.
C25_ProcessedOnce ==
    algo \in {"dfs", "bfs", "dls"}
        => (/\ NoDuplicates(popped)
            /\ Range(popped) = visited
            /\ NoDuplicates(expanded)
            /\ Range(expanded) \subseteq visited)

\* C25 witness: a search ended after it had expanded a vertex with an edge
\* back to a vertex expanded before it.
C25_Witness ==
    /\ algo \in {"dfs", "bfs", "dls"}
    /\ pc = "done"
    /\ \E j, k \in DOMAIN expanded : j < k /\ expanded[j] \in Successors(expanded[k])

\* C26: in every state of every search the PathMap entry of root is None:
\* no step assigns a parent to root.
C26_RootHasNoParent ==
    root \in DOMAIN paths => paths[root] = None

\* p is the whole chain of parents in ps: its first vertex has no parent and
\* each vertex is the recorded parent of the next.
IsParentChain(p, ps) ==
    /\ ps[p[1]] = None
    /\ \A k \in 1..(Len(p) - 1) : ps[p[k + 1]] = p[k]

\* C27: on every PathMap a search builds, _compose_path(v, paths) is the
\* whole chain of parents from the vertex without a parent down to v, also
\* when a parent is the identifier 0; a path a search returns starts at root.
C27_ComposePathComplete ==
    /\ \A v \in DOMAIN paths :
          ~_compose_path_diverges(v, paths) /\ ~_compose_path_raises(v, paths)
              => LET p == _compose_path(v, paths)
                 IN  p[Len(p)] = v /\ IsParentChain(p, paths)
    /\ (algo /= "bidi" /\ pc = "done" /\ result.kind = "path") => result.path[1] = root

\* The vertices perform_dfs, perform_bfs or perform_dls has discovered: those
\* visited and those in the frontier.
Discovered == visited \cup Range(stack) \cup Range(queue)

\* Following the recorded parents from v arrives at root within fuel steps.
RECURSIVE ParentsLeadToRoot(_, _)
ParentsLeadToRoot(v, fuel) ==
    IF v = root THEN TRUE
    ELSE IF paths[v] = None \/ fuel = 0 THEN FALSE
    ELSE ParentsLeadToRoot(paths[v], fuel - 1)

\* Every discovered vertex other than root has a parent that is visited and
\* has an edge to it, and its parents lead to root.
ParentMapIsTree ==
    \A v \in Discovered \ {root} :
        /\ paths[v] /= None
        /\ paths[v] \in visited
        /\ v \in Successors(paths[v])
        /\ ParentsLeadToRoot(v, Cardinality(DOMAIN paths))

\* A parent, once recorded, is not recorded again.
ParentAssignedOnce ==
    \A v \in DOMAIN paths : paths[v] /= None => paths'[v] = paths[v]

\* C28: in every state of perform_dfs, perform_bfs and perform_dls the
\* PathMap is a tree rooted at root over the discovered vertices, and no
\* step changes a parent once it is recorded.
C28_ParentMapIsTree ==
    /\ [](algo \in {"dfs", "bfs", "dls"} => ParentMapIsTree)
    /\ [][(algo \in {"dfs", "bfs", "dls"}) => ParentAssignedOnce]_vars

\* C28 witness: a search ended after it had expanded two vertices that both
\* have an edge to one vertex.
C28_Witness ==
    /\ algo \in {"dfs", "bfs", "dls"}
    /\ pc = "done"
    /\ \E j, k \in DOMAIN expanded :
          /\ j /= k
          /\ Successors(expanded[j]) \cap Successors(expanded[k]) \cap Discovered /= {}

\* Least number of edges of a directed path from root to v (-1: none).
DistanceFromRoot(v) == Distance({root}, v, 0)

\* C29: perform_bfs pops vertices in non-decreasing order of their distance
\* from root, and when it pops a vertex it has already popped every vertex
\* that is nearer to root.
C29_BfsLevelOrder ==
    algo = "bfs"
        => \A k \in DOMAIN popped :
              /\ \A j \in 1..(k - 1) :
                    DistanceFromRoot(popped[j]) <= DistanceFromRoot(popped[k])
              /\ \A u \in ReachableFrom({root}) :
                    DistanceFromRoot(u) < DistanceFromRoot(popped[k])
                        => \E j \in 1..(k - 1) : popped[j] = u

\* C29 witness: the search popped two vertices at distance 1 and then two
\* at distance 2 and 3.
C29_Witness ==
    /\ algo = "bfs"
    /\ pc = "done"
    /\ Len(popped) >= 5
    /\ DistanceFromRoot(popped[2]) = 1
    /\ DistanceFromRoot(popped[3]) = 1
    /\ DistanceFromRoot(popped[Len(popped)]) = 3

\* The vertex the next iteration of `while stack` pops.
Top == stack[Len(stack)]

\* The next iteration pops a vertex that is new, is not goal and has a
\* recorded depth of depth_limit or more.
PopsAtLimit ==
    /\ algo \in {"dls", "ids"}
    /\ pc = "run"
    /\ stack /= <<>>
    /\ Top \notin visited
    /\ Top /= goal
    /\ depths[Top] >= depth_limit

\* The call has returned a path that ends at goal.
GoalFound ==
    /\ pc = "done"
    /\ result.kind = "path"
    /\ result.path[Len(result.path)] = goal

\* C30: an iteration of perform_dls that pops a new non-goal vertex at
\* depth >= depth_limit only removes it from the stack and leaves the search
\* running, and a goal that is on the stack is found afterwards.
C30_LimitSkipsAndContinues ==
    /\ [][PopsAtLimit =>
            /\ stack' = SubSeq(stack, 1, Len(stack) - 1)
            /\ pc' = "run"
            /\ paths' = paths
            /\ depths' = depths
            /\ expanded' = expanded]_vars
    /\ (algo \in {"dls", "ids"} /\ pc = "run" /\ goal \in Range(stack)) ~> GoalFound

\* C30 witness: perform_dls popped a vertex at the limit, did not expand it,
\* popped goal next and returned a path.
C30_Witness ==
    /\ algo = "dls"
    /\ pc = "done"
    /\ result.kind = "path"
    /\ Len(popped) >= 3
    /\ popped[Len(popped)] = goal
    /\ popped[Len(popped) - 1] \notin Range(expanded)
    /\ depths[popped[Len(popped) - 1]] >= depth_limit

\* C31: in perform_ucs no step raises the recorded cost of a vertex: an
\* update of costs[neighbor] writes a value that is at most the value it
\* replaces.
C31_CostNeverIncreases ==
    [][(algo = "ucs") =>
          \A v \in DOMAIN costs :
              costs[v] /= inf => (costs'[v] /= inf /\ costs'[v] <= costs[v])]_vars

\* Following the recorded parents from v comes to a vertex without a parent
\* within fuel steps.
RECURSIVE ParentChainEnds(_, _)
ParentChainEnds(v, fuel) ==
    \/ paths[v] = None
    \/ fuel > 0 /\ ParentChainEnds(paths[v], fuel - 1)

VertexCount == Cardinality(DOMAIN graph)

\* C33: perform_dfs, perform_bfs, perform_dls and perform_ids return on every
\* well-formed graph, for every root, goal and limit: a loop pops at most as
\* many times as the graph has vertices, and perform_ids runs at most
\* max_depth depth-limited searches.
C33_FrontierSearchesTerminate ==
    /\ [](algo \in {"dfs", "bfs", "dls"} => Len(popped) <= VertexCount)
    /\ [](algo = "ids" =>
            /\ pc \in {"run", "ids_check"} => i + 1 <= max_depth
            /\ pc \in {"run", "ids_check"} => Len(popped) <= (i + 1) * VertexCount
            /\ pc = "ids_loop" => Len(popped) <= i * VertexCount)
    /\ [](pc \notin {"hang", "error"})
    /\ <>(pc = "done")

\* C33 witness: perform_ids returned after max_depth depth-limited searches
\* of a graph in which root lies on a cycle, having popped at least twice
\* in each on average.
C33_Witness ==
    /\ algo = "ids"
    /\ pc = "done"
    /\ max_depth >= 2
    /\ i = max_depth
    /\ root \in ReachableFrom(graph[root])
    /\ Len(popped) >= 2 * max_depth

\* The neighbors the half of perform_bidi whose turn it is examines in its
\* next step: those of the vertex it pops, unless that vertex was visited,
\* less its visited set and its queue.
Candidates(side_queue, side_visited) ==
    IF side_queue /= <<>> /\ Head(side_queue) \notin side_visited
                          /\ Head(side_queue) \in DOMAIN graph
    THEN AdjacentVertices(Head(side_queue), side_visited \cup {Head(side_queue)},
                          Tail(side_queue)) \cap DOMAIN paths
    ELSE {}

\* C34: in perform_bidi a candidate neighbor that already has a parent got it
\* from the other half of the search, and the vertex on which a meeting was
\* detected had its parent from the half that did not detect it.
C34_ParentFromOppositeSide ==
    algo = "bidi" =>
        /\ (pc = "run" /\ turn = "root") =>
              \A v \in Candidates(root_queue, root_visited) :
                  paths[v] /= None => assigner[v] = "goal"
        /\ (pc = "run" /\ turn = "goal") =>
              \A v \in Candidates(goal_queue, goal_visited) :
                  paths[v] /= None => assigner[v] = "root"
        /\ (pc = "done" /\ meeting /= <<>>) => assigner[meeting[2]] = turn

\* C34 witness: the root half detected a meeting on a vertex whose parent
\* the goal half had assigned, after it had assigned parents itself.
C34_Witness ==
    /\ algo = "bidi"
    /\ pc = "done"
    /\ meeting /= <<>>
    /\ turn = "goal"
    /\ assigner[meeting[2]] = "goal"
    /\ \E v \in DOMAIN assigner : assigner[v] = "root"

\* The calls of the visitor made with the given colour, in order.
DrawnIn(color) == SelectSeq(drawn, LAMBDA n : n.color = color)

\* The visitor returns from every call and so does _draw_path.
VisitorNeverRaises ==
    /\ draw_path.given
    /\ \A color \in Colors : ~_draw_path_raises(color)

\* C35: in perform_dfs, perform_bfs and perform_dls with a visitor, the
\* 'orange' calls are one per visited vertex in visit order, each with a path
\* from root to that vertex; a returned path was the argument of a final
\* 'green' call; a call that returns no path made no 'green' call.
C35_VisitorNotifiedOfEachVisit ==
    (algo \in {"dfs", "bfs", "dls"} /\ VisitorNeverRaises) =>
        /\ Len(DrawnIn("orange")) = Len(popped)
        /\ \A k \in 1..Len(DrawnIn("orange")) :
              LET p == DrawnIn("orange")[k].path
              IN  p[1] = root /\ p[Len(p)] = popped[k]
        /\ (pc = "done" /\ result.kind = "path") =>
              drawn[Len(drawn)] = Notification(result.path, "green")
        /\ (pc = "done" /\ result.kind /= "path") => DrawnIn("green") = <<>>

\* C36: a visitor that does not fail, handed with a collection, does not
\* change what perform_dfs, perform_bfs, perform_dls and perform_ucs do: the
\* call does not end by an exception of the notification, which the same
\* call without the visitor cannot raise.
C36_VisitorDoesNotInfluence ==
    (algo \in {"dfs", "bfs", "dls", "ucs"} /\ draw_path.given /\ draw_path.fails = {})
        => result \notin {RaiseVisitorError, RaiseTypeError}

\* C37: in perform_dfs, perform_bfs and perform_dls the frontier never holds
\* a vertex twice nor a visited vertex, so that every pop marks a new vertex
\* visited and none is discarded.
C37_FrontierFreshAndDistinct ==
    algo \in {"dfs", "bfs", "dls"} =>
        /\ NoDuplicates(stack)
        /\ NoDuplicates(queue)
        /\ Range(stack) \cap visited = {}
        /\ Range(queue) \cap visited = {}
        /\ Len(popped) = Cardinality(visited)

\* C37 witness: a visited vertex has an edge to a visited vertex and an edge
\* to a vertex waiting in a frontier of two.
C37_Witness ==
    /\ algo \in {"dfs", "bfs", "dls"}
    /\ Len(stack \o queue) >= 2
    /\ \E u \in visited :
          /\ graph[u] \cap visited /= {}
          /\ graph[u] \cap Range(stack \o queue) /= {}

\* C38: main calls the search selected by each algo_index in 0..5 with
\* draw_path and ui_elements and the call is accepted: none of the six ends
\* with a TypeError.
C38_DispatcherCallsAccepted ==
    algo \in {"dfs", "bfs", "dls", "ids", "bidi", "ucs"} => result /= RaiseTypeError
====
